---- MODULE Spec2Model ----
(***************************************************************************)
(* The MSI capability of pci/src/msi.rs: the register block MsiCap, its    *)
(* write decoder MsiCap::update, and MsiConfig::update, which keeps the    *)
(* routing table shared by all devices (gsi_msi_routes, behind one Mutex)  *)
(* in step with the guest's writes and pushes it to KVM.                   *)
(*                                                                         *)
(* Widths.  A u16 is an integer in 0..65535.  TLC's integers are 32-bit    *)
(* signed, so a u32 is kept as the record [hi, lo] of its two 16-bit       *)
(* halves; every u32 operation of the source is defined on that pair.      *)
(***************************************************************************)
EXTENDS Integers, Sequences, FiniteSets, TLC

(* ------------------------------ bounds -------------------------------- *)

\* Total number of update calls the guest issues in one behaviour.
MaxCalls == 3

\* The MsiConfig instances: two devices sharing one routing table.
Dev == {1, 2}

(* ------------------------- fixed-width words -------------------------- *)

U16Bits == 16

U16 == 0..65535

RECURSIVE BitAndN(_, _, _)
\* x & y on the low n bits.
BitAndN(x, y, n) ==
    IF n = 0 \/ x = 0 \/ y = 0 THEN 0
    ELSE ((x % 2) * (y % 2)) + 2 * BitAndN(x \div 2, y \div 2, n - 1)

RECURSIVE BitOrN(_, _, _)
\* x | y on the low n bits.
BitOrN(x, y, n) ==
    IF n = 0 THEN 0
    ELSE (IF (x % 2) + (y % 2) > 0 THEN 1 ELSE 0)
         + 2 * BitOrN(x \div 2, y \div 2, n - 1)

RECURSIVE Pow2(_)
Pow2(n) == IF n = 0 THEN 1 ELSE 2 * Pow2(n - 1)

\* u16 operators: &, |, ! and >>.
And16(x, y) == BitAndN(x, y, U16Bits)
Or16(x, y) == BitOrN(x, y, U16Bits)
Not16(x) == 65535 - x
Shr16(x, n) == x \div Pow2(n)

\* u32 values as [hi, lo].
U32(h, l) == [hi |-> h, lo |-> l]
U32Zero == U32(0, 0)
And32(x, y) == U32(And16(x.hi, y.hi), And16(x.lo, y.lo))
\* (x >> n) & 1 for a u32 x and 0 <= n; a shift by 32 or more is not
\* reachable (vector indices are below 32).
Bit32(x, n) ==
    IF n < U16Bits THEN Shr16(x.lo, n) % 2
    ELSE Shr16(x.hi, n - U16Bits) % 2
\* u32::from(d) | i for a u16 d and an index i < 65536.
OrIdx32(d, i) == U32(0, Or16(d, i))
\* `value as u16` and `(value >> 16) as u16`.
LowU16(x) == x.lo
HighU16(x) == x.hi

\* byteorder::LittleEndian::read_u16 / read_u32 on a byte sequence.
ReadU16(data) == data[1] + 256 * data[2]
ReadU32(data) == U32(data[3] + 256 * data[4], data[1] + 256 * data[2])

(* ------------------------------ constants ----------------------------- *)

MSI_CTL_ENABLE == 1
MSI_CTL_MULTI_MSG_ENABLE == 112
MSI_CTL_64_BITS == 128
MSI_CTL_PER_VECTOR == 256
MSI_MSG_CTL_OFFSET == 2
MSI_MSG_ADDR_LO_OFFSET == 4
MSI_MSG_ADDR_LO_MASK == U32(65535, 65532)
KVM_IRQ_ROUTING_MSI == 2
\* Option<u64>::None for an offset the layout does not have.
NoOffset == -1

(* ------------------------------- MsiCap -------------------------------- *)

\* MsiCap { msg_ctl, ..Default::default() }
MsiCapNew(msg_ctl) ==
    [msg_ctl |-> msg_ctl, msg_addr_lo |-> U32Zero, msg_addr_hi |-> U32Zero,
     msg_data |-> 0, mask_bits |-> U32Zero, pending_bits |-> U32Zero]

addr_64_bits(c) == And16(c.msg_ctl, MSI_CTL_64_BITS) = MSI_CTL_64_BITS

per_vector_mask(c) == And16(c.msg_ctl, MSI_CTL_PER_VECTOR) = MSI_CTL_PER_VECTOR

enabled(c) == And16(c.msg_ctl, MSI_CTL_ENABLE) = MSI_CTL_ENABLE

\* Mutant: the reserved encodings 6 and 7 clamped to 32 vectors.
num_enabled_vectors_clamped(c) ==
    LET field == And16(Shr16(c.msg_ctl, 4), 7)
    IN  IF field > 5 THEN 32 ELSE Pow2(field)

num_enabled_vectors(c) ==
    LET field == And16(Shr16(c.msg_ctl, 4), 7)
    IN  IF field > 5 THEN 0 ELSE Pow2(field)

vector_masked(c, vector) ==
    IF ~per_vector_mask(c) THEN FALSE
    ELSE Bit32(c.mask_bits, vector) = 1

\* Mutant: the per-vector-mask part counted as 8 bytes instead of 10.
size_mask8(c) ==
    10 + (IF addr_64_bits(c) THEN 4 ELSE 0)
       + (IF per_vector_mask(c) THEN 8 ELSE 0)

size(c) ==
    10 + (IF addr_64_bits(c) THEN 4 ELSE 0)
       + (IF per_vector_mask(c) THEN 10 ELSE 0)

\* The offsets MsiCap::update computes from the layout.
msg_data_offset(c) == IF addr_64_bits(c) THEN 12 ELSE 8

addr_hi_offset(c) == IF addr_64_bits(c) THEN 8 ELSE NoOffset

\* Mutant: the mask bits kept at 0x10 whether or not the device has an
\* address-high register.
mask_bits_offset_fixed(c) == IF per_vector_mask(c) THEN 16 ELSE NoOffset

mask_bits_offset(c) ==
    IF addr_64_bits(c)
    THEN (IF per_vector_mask(c) THEN 16 ELSE NoOffset)
    ELSE (IF per_vector_mask(c) THEN 12 ELSE NoOffset)

\* Mutant: the control word overwritten without the writable-bits mask.
WriteCtlRaw(msg_ctl, value) == value

\* (msg_ctl & !(ENABLE | MULTI_MSG_ENABLE)) | (value & (ENABLE | MULTI_MSG_ENABLE))
WriteCtl(msg_ctl, value) ==
    LET rw == Or16(MSI_CTL_ENABLE, MSI_CTL_MULTI_MSG_ENABLE)
    IN  Or16(And16(msg_ctl, Not16(rw)), And16(value, rw))

\* Mutant: address-low stored without clearing its two reserved bits.
WriteAddrLoRaw(value) == value

\* value & MSI_MSG_ADDR_LO_MASK
WriteAddrLo(value) == And32(value, MSI_MSG_ADDR_LO_MASK)

\* Mutant: a 2-byte write at an offset the layout does not have lands in the
\* message data instead of being rejected.
Update2Fallthrough(c, offset, data) ==
    LET value == ReadU16(data)
    IN  IF offset = MSI_MSG_CTL_OFFSET
        THEN [c EXCEPT !.msg_ctl = WriteCtl(c.msg_ctl, value)]
        ELSE [c EXCEPT !.msg_data = value]

\* The 2-byte arm of MsiCap::update.
Update2(c, offset, data) ==
    LET value == ReadU16(data)
    IN  IF offset = MSI_MSG_CTL_OFFSET
        THEN [c EXCEPT !.msg_ctl = WriteCtl(c.msg_ctl, value)]
        ELSE IF offset = msg_data_offset(c)
        THEN [c EXCEPT !.msg_data = value]
        ELSE c

\* The 4-byte arm of MsiCap::update; the arms are tried in the source's order.
Update4(c, offset, data) ==
    LET value == ReadU32(data)
    IN  IF offset = 0
        THEN [c EXCEPT !.msg_ctl = WriteCtl(c.msg_ctl, HighU16(value))]
        ELSE IF offset = MSI_MSG_ADDR_LO_OFFSET
        THEN [c EXCEPT !.msg_addr_lo = WriteAddrLo(value)]
        ELSE IF offset = msg_data_offset(c)
        THEN [c EXCEPT !.msg_data = LowU16(value)]
        ELSE IF addr_hi_offset(c) # NoOffset /\ offset = addr_hi_offset(c)
        THEN [c EXCEPT !.msg_addr_hi = value]
        ELSE IF mask_bits_offset(c) # NoOffset /\ offset = mask_bits_offset(c)
        THEN [c EXCEPT !.mask_bits = value]
        ELSE c

\* MsiCap::update(offset, data): the register block after the write.
MsiCapUpdate(c, offset, data) ==
    IF Len(data) = 2 THEN Update2(c, offset, data)
    ELSE IF Len(data) = 4 THEN Update4(c, offset, data)
    ELSE c

(* --------------------------- input alphabets --------------------------- *)

\* Construction-time control words of the concurrent model (enable clear):
\* 0x000 is 1 vector, 32-bit, no per-vector mask; 0x190 is 2 vectors, 64-bit,
\* per-vector mask.
InitCtls == {0, 400}

\* A write: the capability-relative offset and the little-endian bytes.
W(o, bytes) == [offset |-> o, data |-> bytes]

\* The guest writes of the concurrent model: control writes of both widths
\* (enable, disable, enable with multi-message-enable 7 and the read-only bits
\* set, enable with multi-message-enable 2), address-low with its low bits
\* set, the layout-dependent offsets 8, 12 and 16 (data, address-high or mask
\* bits), and two invalid accesses.
Writes ==
    { W(2, <<1, 0>>), W(2, <<0, 0>>), W(0, <<0, 0, 241, 255>>),
      W(2, <<33, 0>>),
      W(4, <<255, 255, 1, 128>>),
      W(8, <<3, 0, 0, 0>>), W(12, <<4, 0>>),
      W(16, <<1, 0, 0, 0>>), W(16, <<0, 0, 0, 0>>),
      W(6, <<1, 0>>), W(4, <<1, 0, 0>>) }

\* No call in progress.
NoCall == [offset |-> NoOffset, data |-> <<>>]

(* -------------------------------- state -------------------------------- *)

VARIABLES
    new_msg_ctl,     \* per device: the msg_ctl handed to MsiConfig::new
    cap,             \* per device: MsiConfig.cap
    irq_routes,      \* per device: MsiConfig.irq_routes, as the sequence of GSIs
    gsi_msi_routes,  \* the shared HashMap<u32, kvm_irq_routing_entry>
    lock,            \* owner of the Mutex around gsi_msi_routes, 0 when free
    pc,              \* per device: position inside MsiConfig::update
    call,            \* per device: the (offset, data) of the call in progress
    old_enabled,     \* per device: the local old_enabled
    idx,             \* per device: the loop index
    route_calls,     \* per device: enable/disable invocations of this call
    pushed,          \* the table last handed to set_kvm_routes
    old_routes,      \* the table as found when the lock was last taken
    solo,            \* per device: the table it would build running alone
    ncalls,          \* update calls begun so far
    result,          \* the value last returned by a query
    failed,          \* per device: fallible calls of this call that returned Err
    installs,        \* per device: set_kvm_routes invocations of this call
    last_op,         \* per device and route: the last of enable/disable invoked
    allocated,       \* routes the allocator has handed out
    prev_call        \* per device: the write of its last finished call, if kept

vars == <<new_msg_ctl, cap, irq_routes, gsi_msi_routes, lock, pc, call,
          old_enabled, idx, route_calls, pushed, old_routes, solo, ncalls,
          result, failed, installs, last_op, allocated, prev_call>>

NoResult == [fn |-> "none", of |-> 0, val |-> 0]

(* --------------------------- the shared table --------------------------- *)

EmptyTable == [g \in {} |-> 0]

\* HashMap::insert(gsi, entry)
Insert(t, gsi, entry) ==
    [g \in DOMAIN t \cup {gsi} |-> IF g = gsi THEN entry ELSE t[g]]

\* HashMap::remove(&gsi)
Remove(t, gsi) == [g \in DOMAIN t \ {gsi} |-> t[g]]

\* Mutant: the payload without the vector index.
EntryPlainData(c, gsi, i) ==
    [gsi |-> gsi, type |-> KVM_IRQ_ROUTING_MSI,
     address_lo |-> c.msg_addr_lo, address_hi |-> c.msg_addr_hi,
     data |-> U32(0, c.msg_data)]

\* The kvm_irq_routing_entry update builds for vector i of a device.
Entry(c, gsi, i) ==
    [gsi |-> gsi, type |-> KVM_IRQ_ROUTING_MSI,
     address_lo |-> c.msg_addr_lo, address_hi |-> c.msg_addr_hi,
     data |-> OrIdx32(c.msg_data, i)]

\* Mutant: the enabled branch inserts an entry only where there is none.
EnableRouteInsertOnce(t, c, gsi, i) ==
    IF vector_masked(c, i) \/ gsi \in DOMAIN t THEN t
    ELSE Insert(t, gsi, Entry(c, gsi, i))

\* Mutant: the enabled branch removes the entry of a masked vector.
EnableRouteRemoveMasked(t, c, gsi, i) ==
    IF vector_masked(c, i) THEN Remove(t, gsi)
    ELSE Insert(t, gsi, Entry(c, gsi, i))

\* One iteration of the loop of the enabled branch, on table t.
EnableRoute(t, c, gsi, i) ==
    IF vector_masked(c, i) THEN t ELSE Insert(t, gsi, Entry(c, gsi, i))

\* Mutant: the disabled branch forgets to remove the entry.
DisableRouteKeep(t, gsi) == t

\* Mutant: the disabled branch clears the whole shared table.
DisableRouteClear(t, gsi) == EmptyTable

\* One iteration of the loop of the disabled branch, on table t.
DisableRoute(t, gsi) == Remove(t, gsi)

\* Mutant: the enabled branch calls InterruptRoute::enable on every update.
CallsEnableAlways(was_enabled) == TRUE

\* Whether iteration i of the enabled branch calls InterruptRoute::enable.
CallsEnable(was_enabled) == ~was_enabled

\* Mutant: the disabled branch calls InterruptRoute::disable on every update.
CallsDisableAlways(was_enabled) == TRUE

\* Whether iteration i of the disabled branch calls InterruptRoute::disable.
CallsDisable(was_enabled) == was_enabled

(* ----------------------------- construction ---------------------------- *)

RECURSIVE RoutesBefore(_, _)
\* Routes the allocator has handed out before device d is constructed.
RoutesBefore(ctls, d) ==
    IF d = 1 THEN 0
    ELSE RoutesBefore(ctls, d - 1)
         + num_enabled_vectors(MsiCapNew(ctls[d - 1]))

\* The GSI of the route the allocator hands out after n earlier ones: every
\* allocation gets a GSI not handed out before.
FreshGsi(n) == n

\* for _ in 0..cap.num_enabled_vectors() { irq_routes.push(InterruptRoute::new(..)) }
AllocateRoutes(ctls, d) ==
    [i \in 1..num_enabled_vectors(MsiCapNew(ctls[d])) |->
        FreshGsi(RoutesBefore(ctls, d) + i - 1)]

\* Every device d constructed by MsiConfig::new(ctls[d], ..), no call in
\* progress, the register blocks being caps.
InitFrom(ctls, caps) ==
    /\ new_msg_ctl = ctls
    /\ cap = caps
    /\ irq_routes = [d \in Dev |-> AllocateRoutes(ctls, d)]
    /\ gsi_msi_routes = EmptyTable
    /\ lock = 0
    /\ pc = [d \in Dev |-> "idle"]
    /\ call = [d \in Dev |-> NoCall]
    /\ old_enabled = [d \in Dev |-> FALSE]
    /\ idx = [d \in Dev |-> 0]
    /\ route_calls = [d \in Dev |-> <<>>]
    /\ pushed = EmptyTable
    /\ old_routes = EmptyTable
    /\ solo = [d \in Dev |-> EmptyTable]
    /\ ncalls = 0
    /\ result = NoResult
    /\ failed = [d \in Dev |-> 0]
    /\ installs = [d \in Dev |-> 0]
    /\ last_op = [d \in Dev |->
            [i \in 1..num_enabled_vectors(MsiCapNew(ctls[d])) |-> "none"]]
    /\ allocated = RoutesBefore(ctls, 2) + num_enabled_vectors(MsiCapNew(ctls[2]))
    /\ prev_call = [d \in Dev |-> NoCall]

\* The state after MsiConfig::new(ctls[d], ..) for every device d.
InitWith(ctls) == InitFrom(ctls, [d \in Dev |-> MsiCapNew(ctls[d])])

Init == \E ctls \in [Dev -> InitCtls] : InitWith(ctls)

(* --------------------------- MsiConfig::update -------------------------- *)

\* GSI of the route at loop index i (0-based, as in the source).
Gsi(d, i) == irq_routes[d][i + 1]

\* What a fallible call may return: TRUE for Ok, FALSE for Err; a call that is
\* not made cannot fail.
Outcomes(called) == IF called THEN BOOLEAN ELSE {TRUE}

\* Mutant: the loops stop at the number of vectors the guest has enabled.
LoopBoundEnabled(d) ==
    IF num_enabled_vectors(cap[d]) < Len(irq_routes[d])
    THEN num_enabled_vectors(cap[d]) ELSE Len(irq_routes[d])

\* The routes the loops of update iterate over: self.irq_routes.iter().
LoopBound(d) == Len(irq_routes[d])

\* let old_enabled = self.cap.enabled(); self.cap.update(offset, data);
Begin(d, w) ==
    /\ pc[d] = "idle"
    /\ ncalls < MaxCalls
    /\ ncalls' = ncalls + 1
    /\ call' = [call EXCEPT ![d] = w]
    /\ old_enabled' = [old_enabled EXCEPT ![d] = enabled(cap[d])]
    /\ cap' = [cap EXCEPT ![d] = MsiCapUpdate(cap[d], w.offset, w.data)]
    /\ route_calls' = [route_calls EXCEPT ![d] = <<>>]
    /\ pc' = [pc EXCEPT ![d] = "lock"]
    /\ failed' = [failed EXCEPT ![d] = 0]
    /\ installs' = [installs EXCEPT ![d] = 0]
    /\ UNCHANGED <<new_msg_ctl, irq_routes, gsi_msi_routes, lock, idx, pushed,
                   old_routes, solo, result, last_op, allocated, prev_call>>

\* Mutant: the guard is taken without waiting for the current holder, as if
\* each device locked a Mutex of its own.
AcquireLockNoWait(d) ==
    /\ pc[d] = "lock"
    /\ lock' = d
    /\ old_routes' = gsi_msi_routes
    /\ idx' = [idx EXCEPT ![d] = 0]
    /\ pc' = [pc EXCEPT ![d] = "loop"]
    /\ UNCHANGED <<new_msg_ctl, cap, irq_routes, gsi_msi_routes, call,
                   old_enabled, route_calls, pushed, solo, ncalls, result,
                   failed, installs, last_op, allocated, prev_call>>

\* let mut gsi_msi_routes = self.gsi_msi_routes.lock().unwrap();
AcquireLock(d) ==
    /\ pc[d] = "lock"
    /\ lock = 0
    /\ lock' = d
    /\ old_routes' = gsi_msi_routes
    /\ idx' = [idx EXCEPT ![d] = 0]
    /\ pc' = [pc EXCEPT ![d] = "loop"]
    /\ UNCHANGED <<new_msg_ctl, cap, irq_routes, gsi_msi_routes, call,
                   old_enabled, route_calls, pushed, solo, ncalls, result,
                   failed, installs, last_op, allocated, prev_call>>

\* Mutant: an Err from route.enable ends the iteration before the entry is
\* inserted.
EnableStepSkipOnError(d) ==
    /\ pc[d] = "loop"
    /\ enabled(cap[d])
    /\ idx[d] < LoopBound(d)
    /\ route_calls' = [route_calls EXCEPT ![d] =
            IF CallsEnable(old_enabled[d])
            THEN Append(@, <<"enable", idx[d]>>) ELSE @]
    /\ last_op' = [last_op EXCEPT ![d][idx[d] + 1] =
            IF CallsEnable(old_enabled[d]) THEN "enable" ELSE @]
    /\ \E ok \in Outcomes(CallsEnable(old_enabled[d])) :
            /\ failed' = [failed EXCEPT ![d] = IF ok THEN @ ELSE @ + 1]
            /\ gsi_msi_routes' =
                    IF ok
                    THEN EnableRoute(gsi_msi_routes, cap[d], Gsi(d, idx[d]),
                                     idx[d])
                    ELSE gsi_msi_routes
            /\ solo' = [solo EXCEPT ![d] =
                    IF ok THEN EnableRoute(@, cap[d], Gsi(d, idx[d]), idx[d])
                    ELSE @]
    /\ idx' = [idx EXCEPT ![d] = @ + 1]
    /\ UNCHANGED <<new_msg_ctl, cap, irq_routes, lock, pc, call, old_enabled,
                   pushed, old_routes, ncalls, result, installs, allocated,
                   prev_call>>

\* One iteration of `for (idx, route) in self.irq_routes.iter().enumerate()`
\* when self.cap.enabled().  An Err from route.enable is only logged.
EnableStep(d) ==
    /\ pc[d] = "loop"
    /\ enabled(cap[d])
    /\ idx[d] < LoopBound(d)
    /\ route_calls' = [route_calls EXCEPT ![d] =
            IF CallsEnable(old_enabled[d])
            THEN Append(@, <<"enable", idx[d]>>) ELSE @]
    /\ last_op' = [last_op EXCEPT ![d][idx[d] + 1] =
            IF CallsEnable(old_enabled[d]) THEN "enable" ELSE @]
    /\ \E ok \in Outcomes(CallsEnable(old_enabled[d])) :
            failed' = [failed EXCEPT ![d] = IF ok THEN @ ELSE @ + 1]
    /\ gsi_msi_routes' =
            EnableRoute(gsi_msi_routes, cap[d], Gsi(d, idx[d]), idx[d])
    /\ solo' = [solo EXCEPT ![d] =
            EnableRoute(@, cap[d], Gsi(d, idx[d]), idx[d])]
    /\ idx' = [idx EXCEPT ![d] = @ + 1]
    /\ UNCHANGED <<new_msg_ctl, cap, irq_routes, lock, pc, call, old_enabled,
                   pushed, old_routes, ncalls, result, installs, allocated,
                   prev_call>>

\* One iteration of `for route in self.irq_routes.iter()` when the device is
\* not enabled.  An Err from route.disable is only logged.
DisableStep(d) ==
    /\ pc[d] = "loop"
    /\ ~enabled(cap[d])
    /\ idx[d] < LoopBound(d)
    /\ route_calls' = [route_calls EXCEPT ![d] =
            IF CallsDisable(old_enabled[d])
            THEN Append(@, <<"disable", idx[d]>>) ELSE @]
    /\ last_op' = [last_op EXCEPT ![d][idx[d] + 1] =
            IF CallsDisable(old_enabled[d]) THEN "disable" ELSE @]
    /\ \E ok \in Outcomes(CallsDisable(old_enabled[d])) :
            failed' = [failed EXCEPT ![d] = IF ok THEN @ ELSE @ + 1]
    /\ gsi_msi_routes' = DisableRoute(gsi_msi_routes, Gsi(d, idx[d]))
    /\ solo' = [solo EXCEPT ![d] = DisableRoute(@, Gsi(d, idx[d]))]
    /\ idx' = [idx EXCEPT ![d] = @ + 1]
    /\ UNCHANGED <<new_msg_ctl, cap, irq_routes, lock, pc, call, old_enabled,
                   pushed, old_routes, ncalls, result, installs, allocated,
                   prev_call>>

\* Mutant: the table is pushed only when the call changed it.
SetKvmRoutesIfChanged(d) ==
    /\ pc[d] = "loop"
    /\ idx[d] = LoopBound(d)
    /\ IF gsi_msi_routes = old_routes
       THEN UNCHANGED <<pushed, installs, failed, prev_call>>
       ELSE /\ pushed' = gsi_msi_routes
            /\ installs' = [installs EXCEPT ![d] = @ + 1]
            /\ \E ok \in Outcomes(TRUE) :
                    failed' = [failed EXCEPT ![d] = IF ok THEN @ ELSE @ + 1]
    /\ pc' = [pc EXCEPT ![d] = "ret"]
    /\ UNCHANGED <<new_msg_ctl, cap, irq_routes, gsi_msi_routes, lock, call,
                   old_enabled, idx, route_calls, old_routes, solo, ncalls,
                   result, last_op, allocated, prev_call>>

\* set_kvm_routes(&self.vm_fd, &gsi_msi_routes), after the loop.  An Err is
\* only logged.
SetKvmRoutes(d) ==
    /\ pc[d] = "loop"
    /\ idx[d] = LoopBound(d)
    /\ pushed' = gsi_msi_routes
    /\ installs' = [installs EXCEPT ![d] = @ + 1]
    /\ \E ok \in Outcomes(TRUE) :
            failed' = [failed EXCEPT ![d] = IF ok THEN @ ELSE @ + 1]
    /\ pc' = [pc EXCEPT ![d] = "ret"]
    /\ UNCHANGED <<new_msg_ctl, cap, irq_routes, gsi_msi_routes, lock, call,
                   old_enabled, idx, route_calls, old_routes, solo, ncalls,
                   result, last_op, allocated, prev_call>>

\* End of update: the MutexGuard goes out of scope and the call returns;
\* kept is what is remembered of the call.
Finish(d, kept) ==
    /\ pc[d] = "ret"
    /\ lock' = 0
    /\ pc' = [pc EXCEPT ![d] = "idle"]
    /\ call' = [call EXCEPT ![d] = NoCall]
    /\ old_enabled' = [old_enabled EXCEPT ![d] = FALSE]
    /\ idx' = [idx EXCEPT ![d] = 0]
    /\ route_calls' = [route_calls EXCEPT ![d] = <<>>]
    /\ old_routes' = EmptyTable
    /\ failed' = [failed EXCEPT ![d] = 0]
    /\ installs' = [installs EXCEPT ![d] = 0]
    /\ prev_call' = [prev_call EXCEPT ![d] = kept]
    /\ UNCHANGED <<new_msg_ctl, cap, irq_routes, gsi_msi_routes, pushed,
                   solo, ncalls, result, last_op, allocated>>

\* The return of update, nothing remembered of the call.
Return(d) == Finish(d, NoCall)

\* The return of update, the write remembered for the device's next call.
ReturnKeeping(d) == Finish(d, call[d])

Next ==
    \E d \in Dev :
        \/ \E w \in Writes : Begin(d, w)
        \/ AcquireLock(d)
        \/ EnableStep(d)
        \/ DisableStep(d)
        \/ SetKvmRoutes(d)
        \/ Return(d)

Spec == Init /\ [][Next]_vars

\* The writes of the model of repeated calls: enable, disable, enable with
\* multi-message-enable 2, address-low, offset 12 (data or invalid), mask bit
\* 0 set (or invalid), and an access of invalid length.
TwiceWrites ==
    { W(2, <<1, 0>>), W(2, <<0, 0>>), W(2, <<33, 0>>),
      W(4, <<255, 255, 1, 128>>), W(12, <<4, 0>>), W(16, <<1, 0, 0, 0>>),
      W(4, <<1, 0, 0>>) }

\* The same calls, each device remembering its last write.
NextTwice ==
    \E d \in Dev :
        \/ \E w \in TwiceWrites : Begin(d, w)
        \/ AcquireLock(d)
        \/ EnableStep(d)
        \/ DisableStep(d)
        \/ SetKvmRoutes(d)
        \/ ReturnKeeping(d)

SpecTwice == Init /\ [][NextTwice]_vars

(* ------------------- the register block on its own --------------------- *)

RECURSIVE SumOf(_)
SumOf(S) == IF S = {} THEN 0 ELSE LET x == CHOOSE y \in S : TRUE
                                 IN  x + SumOf(S \ {x})

\* Construction-time control words of the register-block model: every
\* combination of multi-message-capable (0xe), 64-bit (0x80), per-vector mask
\* (0x100) and the reserved bits (0xfe00).
CapInitCtls == {SumOf(S) : S \in SUBSET {14, 128, 256, 65024}}

CapOffsets == {0, 2, 4, 6, 8, 12, 16, 20}

\* Payloads of 1, 3 and 5 bytes, and 2-byte and 4-byte ones.
CapData ==
    { <<1>>, <<1, 0, 0>>, <<1, 0, 0, 0, 0>>,
      <<0, 0>>, <<1, 0>>, <<255, 255>>,
      <<3, 0, 1, 0>>, <<255, 255, 255, 255>> }

CapWrites == [offset : CapOffsets, data : CapData]

InitCap ==
    \E c \in CapInitCtls : InitWith([d \in Dev |-> IF d = 1 THEN c ELSE 0])

\* MsiCap::update on the register block of device 1, outside MsiConfig.
CapUpdate(w) ==
    /\ cap' = [cap EXCEPT ![1] = MsiCapUpdate(cap[1], w.offset, w.data)]
    /\ UNCHANGED <<new_msg_ctl, irq_routes, gsi_msi_routes, lock, pc, call,
                   old_enabled, idx, route_calls, pushed, old_routes, solo,
                   ncalls, result,
                   failed, installs, last_op, allocated, prev_call>>

\* MsiConfig::size()
SizeCall(d) ==
    /\ result' = [fn |-> "size", of |-> d, val |-> size(cap[d])]
    /\ UNCHANGED <<new_msg_ctl, cap, irq_routes, gsi_msi_routes, lock, pc,
                   call, old_enabled, idx, route_calls, pushed, old_routes,
                   solo, ncalls,
                   failed, installs, last_op, allocated, prev_call>>

\* MsiConfig::num_enabled_vectors()
NumEnabledVectorsCall(d) ==
    /\ result' = [fn |-> "num_enabled_vectors", of |-> d,
                  val |-> num_enabled_vectors(cap[d])]
    /\ UNCHANGED <<new_msg_ctl, cap, irq_routes, gsi_msi_routes, lock, pc,
                   call, old_enabled, idx, route_calls, pushed, old_routes,
                   solo, ncalls,
                   failed, installs, last_op, allocated, prev_call>>

NextCap ==
    \/ \E w \in CapWrites : CapUpdate(w)
    \/ SizeCall(1)

SpecCap == InitCap /\ [][NextCap]_vars

(* ---------------------- every 16-bit control word ---------------------- *)

InitCtl ==
    \E c \in U16 : InitWith([d \in Dev |-> IF d = 1 THEN c ELSE 0])

NextCtl == NumEnabledVectorsCall(1)

SpecCtl == InitCtl /\ [][NextCtl]_vars

(* ------------------------ one write, identified ------------------------ *)

\* Writes that fill the register block before the write under study: the
\* writable control bits, address-low, and offsets 8, 12 and 16, each of which
\* lands in the field the device's layout puts there, if any.
SetupWrites ==
    << W(2, <<113, 0>>), W(4, <<252, 255, 1, 128>>), W(8, <<3, 0, 1, 0>>),
       W(12, <<5, 0, 2, 0>>), W(16, <<1, 0, 0, 128>>) >>

RECURSIVE ApplyWrites(_, _, _)
\* The register block c after those of SetupWrites[k..] whose index is in S.
ApplyWrites(c, S, k) ==
    IF k > Len(SetupWrites) THEN c
    ELSE ApplyWrites(IF k \in S
                     THEN MsiCapUpdate(c, SetupWrites[k].offset,
                                       SetupWrites[k].data)
                     ELSE c, S, k + 1)

\* Device 1 constructed with any layout and then written by any subset of
\* SetupWrites.
InitWrite ==
    \E c \in CapInitCtls, S \in SUBSET (1..Len(SetupWrites)) :
        InitFrom([d \in Dev |-> IF d = 1 THEN c ELSE 0],
                 [d \in Dev |-> IF d = 1
                                THEN ApplyWrites(MsiCapNew(c), S, 1)
                                ELSE MsiCapNew(0)])

\* MsiCap::update on the register block of device 1, the write kept in call.
WriteOnce(w) ==
    /\ call[1] = NoCall
    /\ call' = [call EXCEPT ![1] = w]
    /\ cap' = [cap EXCEPT ![1] = MsiCapUpdate(cap[1], w.offset, w.data)]
    /\ UNCHANGED <<new_msg_ctl, irq_routes, gsi_msi_routes, lock, pc,
                   old_enabled, idx, route_calls, pushed, old_routes, solo,
                   ncalls, result, failed, installs, last_op, allocated,
                   prev_call>>

NextWrite == \E w \in CapWrites : WriteOnce(w)

SpecWrite == InitWrite /\ [][NextWrite]_vars

(* ---------------------- MsiConfig::new, step by step -------------------- *)

\* Initial control words of the construction model: every multi-message-enable
\* encoding 0..7, without and with the 64-bit and per-vector-mask flags.
NewCtls == {16 * f + flags : f \in 0..7, flags \in {0, 384}}

\* No device constructed yet, the allocator untouched, the shared table empty.
InitNew ==
    /\ new_msg_ctl = [d \in Dev |-> 0]
    /\ cap = [d \in Dev |-> MsiCapNew(0)]
    /\ irq_routes = [d \in Dev |-> <<>>]
    /\ gsi_msi_routes = EmptyTable
    /\ lock = 0
    /\ pc = [d \in Dev |-> "unborn"]
    /\ call = [d \in Dev |-> NoCall]
    /\ old_enabled = [d \in Dev |-> FALSE]
    /\ idx = [d \in Dev |-> 0]
    /\ route_calls = [d \in Dev |-> <<>>]
    /\ pushed = EmptyTable
    /\ old_routes = EmptyTable
    /\ solo = [d \in Dev |-> EmptyTable]
    /\ ncalls = 0
    /\ result = NoResult
    /\ failed = [d \in Dev |-> 0]
    /\ installs = [d \in Dev |-> 0]
    /\ last_op = [d \in Dev |-> <<>>]
    /\ allocated = 0
    /\ prev_call = [d \in Dev |-> NoCall]

\* let cap = MsiCap { msg_ctl, ..Default::default() }; let mut irq_routes =
\* Vec::new();  The allocator is borrowed mutably, so no other construction
\* is under way.
NewBegin(d, msg_ctl) ==
    /\ pc[d] = "unborn"
    /\ \A e \in Dev : pc[e] # "new"
    /\ new_msg_ctl' = [new_msg_ctl EXCEPT ![d] = msg_ctl]
    /\ cap' = [cap EXCEPT ![d] = MsiCapNew(msg_ctl)]
    /\ pc' = [pc EXCEPT ![d] = "new"]
    /\ UNCHANGED <<irq_routes, gsi_msi_routes, lock, call, old_enabled, idx,
                   route_calls, pushed, old_routes, solo, ncalls, result,
                   failed, installs, last_op, allocated, prev_call>>

\* Mutant: a failed allocation ends the loop and construction goes on with
\* the routes it has.
NewAllocateBreakOnError(d) ==
    /\ pc[d] = "new"
    /\ Len(irq_routes[d]) < num_enabled_vectors(cap[d])
    /\ \E ok \in Outcomes(TRUE) :
          IF ok
          THEN /\ irq_routes' = [irq_routes EXCEPT ![d] =
                        Append(@, FreshGsi(allocated))]
               /\ last_op' = [last_op EXCEPT ![d] = Append(@, "none")]
               /\ allocated' = allocated + 1
               /\ UNCHANGED <<pc, failed, prev_call>>
          ELSE /\ failed' = [failed EXCEPT ![d] = @ + 1]
               /\ pc' = [pc EXCEPT ![d] = "idle"]
               /\ UNCHANGED <<irq_routes, last_op, allocated, prev_call>>
    /\ UNCHANGED <<new_msg_ctl, cap, gsi_msi_routes, lock, call, old_enabled,
                   idx, route_calls, pushed, old_routes, solo, ncalls, result,
                   installs, prev_call>>

\* irq_routes.push(InterruptRoute::new(allocator).unwrap()): one iteration of
\* the loop.  On Err the unwrap panics: new does not return, and the routes
\* pushed so far are dropped with the Vec.
NewAllocate(d) ==
    /\ pc[d] = "new"
    /\ Len(irq_routes[d]) < num_enabled_vectors(cap[d])
    /\ \E ok \in Outcomes(TRUE) :
          IF ok
          THEN /\ irq_routes' = [irq_routes EXCEPT ![d] =
                        Append(@, FreshGsi(allocated))]
               /\ last_op' = [last_op EXCEPT ![d] = Append(@, "none")]
               /\ allocated' = allocated + 1
               /\ UNCHANGED <<pc, failed, prev_call>>
          ELSE /\ failed' = [failed EXCEPT ![d] = @ + 1]
               /\ pc' = [pc EXCEPT ![d] = "failed"]
               /\ irq_routes' = [irq_routes EXCEPT ![d] = <<>>]
               /\ last_op' = [last_op EXCEPT ![d] = <<>>]
               /\ UNCHANGED allocated
    /\ UNCHANGED <<new_msg_ctl, cap, gsi_msi_routes, lock, call, old_enabled,
                   idx, route_calls, pushed, old_routes, solo, ncalls, result,
                   installs, prev_call>>

\* MsiConfig { cap, irq_routes, vm_fd, gsi_msi_routes }: new returns.
NewReturn(d) ==
    /\ pc[d] = "new"
    /\ Len(irq_routes[d]) = num_enabled_vectors(cap[d])
    /\ pc' = [pc EXCEPT ![d] = "idle"]
    /\ UNCHANGED <<new_msg_ctl, cap, irq_routes, gsi_msi_routes, lock, call,
                   old_enabled, idx, route_calls, pushed, old_routes, solo,
                   ncalls, result, failed, installs, last_op, allocated,
                   prev_call>>

NextNew ==
    \E d \in Dev :
        \/ \E c \in NewCtls : NewBegin(d, c)
        \/ NewAllocate(d)
        \/ NewReturn(d)

SpecNew == InitNew /\ [][NextNew]_vars

(* ------------------------------- claims -------------------------------- *)

\* Loop indices of the routes device d owns.
Vectors(d) == 0..(Len(irq_routes[d]) - 1)

\* GSIs of the routes device d owns.
Gsis(d) == {Gsi(d, i) : i \in Vectors(d)}

\* The set of bit positions set in a 16-bit value.
Bits(x) == {k \in 0..15 : (x \div Pow2(k)) % 2 = 1}

\* Device d is inside a mask-bits write whose value has bit i set.
MaskWriteSets(d, i) ==
    /\ Len(call[d].data) = 4
    /\ call[d].offset = mask_bits_offset(cap[d])
    /\ Bit32(ReadU32(call[d].data), i) = 1

\* C1: whenever a device is between update calls, the shared table has an
\* entry keyed by the GSI of its route i if and only if the device is enabled
\* and vector i is not masked.
C1_EntryIffEnabledAndUnmasked ==
    \A d \in Dev :
        pc[d] = "idle" =>
            \A i \in Vectors(d) :
                (Gsi(d, i) \in DOMAIN gsi_msi_routes)
                    <=> (enabled(cap[d]) /\ ~vector_masked(cap[d], i))

\* C2: when an update that finds the device enabled and leaves it enabled is
\* a mask-bits write setting bit i, then once its work is done the table has
\* no entry for the GSI of vector i, and every other unmasked vector that had
\* an entry still has the same entry.
C2_MaskedVectorLeavesTable ==
    \A d \in Dev :
        (pc[d] = "ret" /\ old_enabled[d] /\ enabled(cap[d])) =>
            \A i \in Vectors(d) :
                MaskWriteSets(d, i) =>
                    /\ Gsi(d, i) \notin DOMAIN gsi_msi_routes
                    /\ \A j \in Vectors(d) \ {i} :
                          (/\ ~vector_masked(cap[d], j)
                           /\ Gsi(d, j) \in DOMAIN old_routes)
                          => /\ Gsi(d, j) \in DOMAIN gsi_msi_routes
                             /\ gsi_msi_routes[Gsi(d, j)] = old_routes[Gsi(d, j)]

\* Device d has finished the work of an update that turned it from disabled
\* to enabled, with none of its vectors masked.
JustEnabledUnmasked(d) ==
    /\ pc[d] = "ret"
    /\ ~old_enabled[d]
    /\ enabled(cap[d])
    /\ \A i \in Vectors(d) : ~vector_masked(cap[d], i)

\* C3: after an update that enables a disabled device owning N routes, none
\* masked, the table holds exactly N entries of this device, keyed by N
\* distinct GSIs; the entry of vector i has type MSI, the address
\* (address_low, address_high) and payload data OR i; and enable was invoked
\* once on each route, in order.
C3_EnableInstallsEveryRoute ==
    \A d \in Dev :
        JustEnabledUnmasked(d) =>
            LET n == Len(irq_routes[d])
            IN  /\ Cardinality(Gsis(d)) = n
                /\ Cardinality(DOMAIN gsi_msi_routes \cap Gsis(d)) = n
                /\ Cardinality({g \in DOMAIN gsi_msi_routes :
                                  gsi_msi_routes[g].gsi \in Gsis(d)}) = n
                /\ \A i \in Vectors(d) :
                      LET e == gsi_msi_routes[Gsi(d, i)]
                      IN  /\ e.gsi = Gsi(d, i)
                          /\ e.type = KVM_IRQ_ROUTING_MSI
                          /\ e.address_lo = cap[d].msg_addr_lo
                          /\ e.address_hi = cap[d].msg_addr_hi
                          /\ e.data.hi = 0
                          /\ Bits(e.data.lo) = Bits(cap[d].msg_data) \cup Bits(i)
                /\ route_calls[d] = [k \in 1..n |-> <<"enable", k - 1>>]

\* C3 witness: a 2-vector device with a non-zero data template and a
\* non-zero upper address has just been enabled.
C3_Witness ==
    \E d \in Dev :
        /\ JustEnabledUnmasked(d)
        /\ Len(irq_routes[d]) = 2
        /\ cap[d].msg_data = 4
        /\ cap[d].msg_addr_hi # U32Zero

\* Device d has finished the work of an update that turned it from enabled
\* to disabled.
JustDisabled(d) ==
    /\ pc[d] = "ret"
    /\ old_enabled[d]
    /\ ~enabled(cap[d])

\* C4: after an update that clears the enable bit of an enabled device, no
\* GSI of an owned route is a key of the table, and during the call disable
\* was invoked exactly once on each owned route and enable on none.
C4_DisableRemovesEveryRoute ==
    \A d \in Dev :
        JustDisabled(d) =>
            /\ DOMAIN gsi_msi_routes \cap Gsis(d) = {}
            /\ Len(route_calls[d]) = Len(irq_routes[d])
            /\ \A i \in Vectors(d) :
                  Cardinality({k \in DOMAIN route_calls[d] :
                                 route_calls[d][k] = <<"disable", i>>}) = 1

\* C4 witness: a 2-vector device whose two entries were in the table when the
\* lock was taken has just been disabled.
C4_Witness ==
    \E d \in Dev :
        /\ JustDisabled(d)
        /\ Len(irq_routes[d]) = 2
        /\ Gsis(d) \subseteq DOMAIN old_routes

\* C5: under every interleaving, the shared table is the union of the tables
\* the devices would have built each running its own updates alone: in every
\* state, and so in the final one.
C5_TableIsUnionOfSoloTables ==
    /\ DOMAIN gsi_msi_routes = UNION {DOMAIN solo[d] : d \in Dev}
    /\ \A d \in Dev : \A g \in DOMAIN solo[d] : gsi_msi_routes[g] = solo[d][g]
    /\ \A d \in Dev : DOMAIN solo[d] \subseteq Gsis(d)

\* C5 witness: device 1 has finished a transition that left both its entries
\* in the table while device 2, whose entry is in the table too, is inside a
\* concurrent update waiting for the lock.
C5_Witness ==
    /\ pc[1] = "ret"
    /\ pc[2] = "lock"
    /\ Gsis(1) # {}
    /\ Gsis(2) # {}
    /\ Gsis(1) \cup Gsis(2) \subseteq DOMAIN gsi_msi_routes

\* Positions at which a device holds the guard on the shared table.
InSection == {"loop", "ret"}

\* C6: the lock is held from before the first table mutation until after the
\* push: at most one update is inside that section, and it owns the lock; the
\* table handed to the installer holds the whole transition of the pushing
\* call and no partially applied update of another device.
C6_LockCoversMutationAndPush ==
    /\ \A d \in Dev : pc[d] \in InSection => lock = d
    /\ \A d, e \in Dev :
          (d # e /\ pc[d] \in InSection) => pc[e] \notin InSection
    /\ \A d \in Dev :
          pc[d] = "ret" =>
              /\ pushed = gsi_msi_routes
              /\ idx[d] = Len(irq_routes[d])
              /\ \A e \in Dev \ {d} :
                    \A g \in Gsis(e) :
                        (g \in DOMAIN pushed) = (g \in DOMAIN solo[e])

\* C6 witness: one device has pushed a non-empty table and still holds the
\* lock while the other is blocked on it.
C6_Witness ==
    \E d, e \in Dev :
        /\ pc[d] = "ret"
        /\ pc[e] = "lock"
        /\ lock = d
        /\ DOMAIN pushed # {}

\* The control bits other than enable and multi-message-enable: bits 1-3 and
\* bits 7-15.
FixedBits(ctl) == <<(ctl \div 2) % 8, ctl \div 128>>

\* C7: after any sequence of writes the control bits outside enable and
\* multi-message-enable equal their construction-time values.
C7_FixedControlBitsKept ==
    FixedBits(cap[1].msg_ctl) = FixedBits(new_msg_ctl[1])

\* C7 witness: a register block built with all fixed bits clear has taken a
\* control write of 0xffff: enable and multi-message-enable are all ones.
C7_Witness ==
    /\ new_msg_ctl[1] = 0
    /\ cap[1].msg_ctl = 113

\* C8: the two low bits of address_low are always zero, and so are those of
\* the address_lo of every entry of the table and of the table pushed.
C8_AddressLowAligned ==
    /\ \A d \in Dev : cap[d].msg_addr_lo.lo % 4 = 0
    /\ \A g \in DOMAIN gsi_msi_routes : gsi_msi_routes[g].address_lo.lo % 4 = 0
    /\ \A g \in DOMAIN pushed : pushed[g].address_lo.lo % 4 = 0

\* C8 witness: an entry installed after the address-low write 0x8001ffff
\* carries 0x8001fffc.
C8_Witness ==
    \E g \in DOMAIN gsi_msi_routes :
        gsi_msi_routes[g].address_lo = U32(32769, 65532)

\* The vector count of each multi-message-enable encoding 0..7.
VectorCounts == <<1, 2, 4, 8, 16, 32, 0, 0>>

\* C9: for every 16-bit control value enabled_vector_count() is 1, 2, 4, 8,
\* 16, 32 for the multi-message-enable field 0..5 and 0 for 6 and 7, whatever
\* the other bits.
C9_VectorCountByField ==
    LET f == (cap[1].msg_ctl \div 16) % 8
    IN  /\ num_enabled_vectors(cap[1]) = VectorCounts[f + 1]
        /\ result.fn = "num_enabled_vectors" => result.val = VectorCounts[f + 1]

\* C9 witness: the query has returned 0 for the all-ones control word.
C9_Witness ==
    /\ cap[1].msg_ctl = 65535
    /\ result.fn = "num_enabled_vectors"
    /\ result.val = 0

\* The size the layout of a control word calls for.
LayoutSize(ctl) ==
    LET is64 == (ctl \div 128) % 2 = 1
        mask == (ctl \div 256) % 2 = 1
    IN  IF ~is64 /\ ~mask THEN 10
        ELSE IF is64 /\ ~mask THEN 14
        ELSE IF ~is64 /\ mask THEN 20
        ELSE 24

\* C10: structure_size() is 10, 14, 20 or 24 for (32-bit, no mask), (64-bit,
\* no mask), (32-bit, mask), (64-bit, mask), as fixed at construction,
\* whatever writes have been applied.
C10_SizeByLayout ==
    /\ size(cap[1]) = LayoutSize(new_msg_ctl[1])
    /\ result.fn = "size" => result.val = LayoutSize(new_msg_ctl[1])

\* C10 witness: size() has returned 24 for a 64-bit, per-vector-mask block
\* whose every writable field has been written.
C10_Witness ==
    /\ result.fn = "size"
    /\ result.val = 24
    /\ enabled(cap[1])
    /\ cap[1].msg_addr_lo # U32Zero
    /\ cap[1].msg_addr_hi # U32Zero
    /\ cap[1].msg_data # 0
    /\ cap[1].mask_bits # U32Zero

\* The fields of the register block.
Fields ==
    {"msg_ctl", "msg_addr_lo", "msg_addr_hi", "msg_data", "mask_bits",
     "pending_bits"}

\* The field a write of len bytes at offset off selects on a device whose
\* register block is c, by the layout table; "none" when the access is not
\* one the layout has.
FieldAt(c, off, len) ==
    LET is64 == addr_64_bits(c)
        mask == per_vector_mask(c)
    IN  IF len = 2
        THEN CASE off = 2 -> "msg_ctl"
               [] off = 8 /\ ~is64 -> "msg_data"
               [] off = 12 /\ is64 -> "msg_data"
               [] OTHER -> "none"
        ELSE IF len = 4
        THEN CASE off = 0 -> "msg_ctl"
               [] off = 4 -> "msg_addr_lo"
               [] off = 8 -> IF is64 THEN "msg_addr_hi" ELSE "msg_data"
               [] off = 12 /\ is64 -> "msg_data"
               [] off = 12 /\ ~is64 /\ mask -> "mask_bits"
               [] off = 16 /\ is64 /\ mask -> "mask_bits"
               [] OTHER -> "none"
        ELSE "none"

\* The step is device 1 receiving the write call'[1].
WriteStep == call[1] = NoCall /\ call'[1] # NoCall

ExpectedTable(d, c, old) ==
    LET kept == {i \in Vectors(d) :
                    /\ enabled(c)
                    /\ (vector_masked(c, i) => Gsi(d, i) \in DOMAIN old)}
        vec(g) == CHOOSE i \in kept : Gsi(d, i) = g
    IN  [g \in (DOMAIN old \ Gsis(d)) \cup {Gsi(d, i) : i \in kept} |->
            IF g \in Gsis(d) /\ ~vector_masked(c, vec(g))
            THEN Entry(c, g, vec(g))
            ELSE old[g]]

\* C12: an Err from route.enable, route.disable or set_kvm_routes never stops
\* update and never changes what it does in memory: the call goes on with the
\* next route or with the push, the register block stays as cap.update left
\* it, and when the work is done after any number of failures the shared
\* table is the one the all-success call leaves.
C12_FailuresChangeNothing ==
    [][\A d \in Dev :
          /\ pc[d] # "idle" => cap'[d] = cap[d]
          /\ failed'[d] > failed[d] /\ pc[d] = "loop"
                => (idx'[d] = idx[d] + 1 \/ pc'[d] = "ret")
          /\ (pc[d] = "loop" /\ pc'[d] = "ret" /\ failed'[d] > 0)
                => gsi_msi_routes'
                      = ExpectedTable(d, cap'[d], old_routes')]_vars

\* A device owning two routes has been enabled by a call in which both
\* route.enable calls and set_kvm_routes failed, and both entries are there.
C12_Witness ==
    \E d \in Dev :
        /\ pc[d] = "ret"
        /\ Len(irq_routes[d]) = 2
        /\ failed[d] = 3
        /\ enabled(cap[d])
        /\ Gsis(d) \subseteq DOMAIN gsi_msi_routes

\* C13: every update call invokes set_kvm_routes exactly once, after the last
\* change it makes to the shared table, and hands it the whole shared table:
\* no invocation before the loop is over, and once the work is done exactly
\* one, whose argument is the table as it stands, other devices' entries
\* included.
C13_OnePushOfWholeTable ==
    \A d \in Dev :
        /\ pc[d] \in {"lock", "loop"} => installs[d] = 0
        /\ pc[d] = "ret" => (installs[d] = 1 /\ pushed = gsi_msi_routes)

\* A device has finished the work of an invalid access that changed nothing,
\* while the table holds entries of the other device.
C13_Witness ==
    \E d \in Dev :
        /\ pc[d] = "ret"
        /\ call[d] = W(6, <<1, 0>>)
        /\ gsi_msi_routes = old_routes
        /\ \E e \in Dev \ {d} : Gsis(e) \cap DOMAIN gsi_msi_routes # {}
        /\ installs[d] = 1

RECURSIVE RoutesOwned(_)
\* The routes owned by the devices of the set D together.
RoutesOwned(D) ==
    IF D = {} THEN 0
    ELSE LET d == CHOOSE e \in D : TRUE
         IN  Len(irq_routes[d]) + RoutesOwned(D \ {d})

\* C14: construction asks the allocator for exactly enabled_vector_count()
\* routes of the initial control word, none for the reserved encodings 6 and
\* 7: a constructed manager owns that many routes, had no allocation fail,
\* and while no construction has failed the allocator has handed out exactly
\* the routes the managers own.  A failed allocation leaves no manager.
\* Construction puts nothing into the shared table.
C14_ConstructionAllocatesVectorCount ==
    /\ \A d \in Dev :
          LET n == VectorCounts[((new_msg_ctl[d] \div 16) % 8) + 1]
          IN  /\ pc[d] = "idle" => (Len(irq_routes[d]) = n /\ failed[d] = 0)
              /\ pc[d] = "new" => (Len(irq_routes[d]) <= n /\ failed[d] = 0)
              /\ failed[d] > 0 => pc[d] = "failed"
    /\ (\A d \in Dev : pc[d] # "failed") => allocated = RoutesOwned(Dev)
    /\ gsi_msi_routes = EmptyTable

\* One device was constructed with the reserved encoding 7 and owns no
\* route; the construction of another, with encoding 2, failed on its fourth
\* allocation.
C14_Witness ==
    \E d \in Dev, e \in Dev :
        /\ pc[d] = "idle" /\ (new_msg_ctl[d] \div 16) % 8 = 7
        /\ irq_routes[d] = <<>>
        /\ pc[e] = "failed" /\ (new_msg_ctl[e] \div 16) % 8 = 2
        /\ failed[e] = 1 /\ allocated = 3

\* C15: the routes a device owns are those allocated at construction, in
\* length, order and GSIs, whatever updates have run; the shared table has no
\* key that is not the GSI of an owned route, so a device never has more
\* entries than the vector count of its initial control word; and an update
\* that leaves the device enabled has an entry for every unmasked owned
\* route, whatever enabled_vector_count() is by then.
C15_RoutesFixedAtConstruction ==
    /\ \A d \in Dev :
          /\ irq_routes[d] = AllocateRoutes(new_msg_ctl, d)
          /\ Cardinality(Gsis(d) \cap DOMAIN gsi_msi_routes)
                <= VectorCounts[((new_msg_ctl[d] \div 16) % 8) + 1]
          /\ (pc[d] = "ret" /\ enabled(cap[d])) =>
                \A i \in 0..(VectorCounts[((new_msg_ctl[d] \div 16) % 8) + 1] - 1) :
                    ~vector_masked(cap[d], i)
                        => irq_routes[d][i + 1] \in DOMAIN gsi_msi_routes
    /\ DOMAIN gsi_msi_routes \subseteq UNION {Gsis(d) : d \in Dev}

\* A device constructed with two vectors has been enabled by a write that
\* sets multi-message-enable to four vectors: its two routes are as allocated
\* and exactly these two have an entry.
C15_Witness ==
    \E d \in Dev :
        /\ pc[d] = "ret"
        /\ Len(irq_routes[d]) = 2
        /\ call[d] = W(2, <<33, 0>>)
        /\ enabled(cap[d])
        /\ num_enabled_vectors(cap[d]) = 4
        /\ Cardinality(Gsis(d) \cap DOMAIN gsi_msi_routes) = 2

\* The 32-bit word whose little-endian bytes are b.
WordOf(b) == U32(b[3] + 256 * b[4], b[1] + 256 * b[2])

\* C16: a write the layout has a field for changes that field and no other:
\* 4 bytes at 0x4 set address_low (to the value with its two low bits clear);
\* at 0x8 address_high on a 64-bit device and data on a 32-bit one; at 0xc
\* data on a 64-bit device and mask_bits on a 32-bit mask-capable one; at 0x10
\* mask_bits on a 64-bit mask-capable device; 2 bytes at the message-data
\* offset set data.  data takes the low 16 bits, the 32-bit fields the whole
\* value.  pending_bits is never written.
C16_ValidWriteChangesOneField ==
    [][WriteStep =>
          LET b == call'[1].data
              f == FieldAt(cap[1], call'[1].offset, Len(b))
          IN  f # "none" =>
                /\ \A g \in Fields \ {f} : cap'[1][g] = cap[1][g]
                /\ cap'[1].pending_bits = cap[1].pending_bits
                /\ f = "msg_addr_lo" =>
                      cap'[1].msg_addr_lo
                          = U32(b[3] + 256 * b[4], (b[1] - (b[1] % 4)) + 256 * b[2])
                /\ f = "msg_addr_hi" => cap'[1].msg_addr_hi = WordOf(b)
                /\ f = "mask_bits" => cap'[1].mask_bits = WordOf(b)
                /\ f = "msg_data" => cap'[1].msg_data = b[1] + 256 * b[2]]_vars

\* A 32-bit mask-capable device whose address-low and data were set has
\* received a 4-byte write at 0xc, which is now its mask bits.
C16_Witness ==
    /\ ~addr_64_bits(cap[1]) /\ per_vector_mask(cap[1])
    /\ call[1] = W(12, <<3, 0, 1, 0>>)
    /\ cap[1].mask_bits = U32(1, 3)
    /\ cap[1].msg_data = 3
    /\ cap[1].msg_addr_lo # U32Zero
    /\ cap[1].msg_addr_hi = U32Zero

\* C17: an update that leaves the device enabled removes no key from the
\* shared table, and the entry a masked vector had when the call began is
\* still there with the same address and payload when its work is done; a
\* key leaves the table only in a step of the disabled branch of the device
\* owning it.
C17_EnabledUpdateRemovesNothing ==
    [][/\ \A g \in DOMAIN gsi_msi_routes \ DOMAIN gsi_msi_routes' :
             \E d \in Dev : /\ g \in Gsis(d)
                            /\ pc[d] = "loop"
                            /\ ~enabled(cap[d])
       /\ \A d \in Dev :
             (pc'[d] = "ret" /\ enabled(cap'[d])) =>
                /\ DOMAIN old_routes' \subseteq DOMAIN gsi_msi_routes'
                /\ \A i \in Vectors(d) :
                      (/\ vector_masked(cap'[d], i)
                       /\ Gsi(d, i) \in DOMAIN old_routes')
                      => gsi_msi_routes'[Gsi(d, i)] = old_routes'[Gsi(d, i)]]_vars

\* An enabled device with vector 0 masked has finished an address-low write:
\* the entry of vector 0 is still there, with the address it had before.
C17_Witness ==
    \E d \in Dev :
        /\ pc[d] = "ret"
        /\ old_enabled[d] /\ enabled(cap[d])
        /\ call[d].offset = MSI_MSG_ADDR_LO_OFFSET /\ Len(call[d].data) = 4
        /\ vector_masked(cap[d], 0)
        /\ Gsi(d, 0) \in DOMAIN gsi_msi_routes
        /\ gsi_msi_routes[Gsi(d, 0)] = old_routes[Gsi(d, 0)]
        /\ gsi_msi_routes[Gsi(d, 0)].address_lo # cap[d].msg_addr_lo

\* C18: once the work of an update that leaves the device enabled is done,
\* every unmasked vector i the device owns has an entry under the GSI of its
\* route, whose address is the register block's (address_low, address_high)
\* and whose payload is data OR i, as they are now; so a write that clears a
\* mask bit installs the vector's entry in the same call.
C18_UnmaskedEntriesAreCurrent ==
    \A d \in Dev :
        (pc[d] = "ret" /\ enabled(cap[d])) =>
            \A i \in Vectors(d) :
                ~vector_masked(cap[d], i) =>
                    /\ Gsi(d, i) \in DOMAIN gsi_msi_routes
                    /\ LET e == gsi_msi_routes[Gsi(d, i)]
                       IN  /\ e.gsi = Gsi(d, i)
                           /\ e.address_lo = cap[d].msg_addr_lo
                           /\ e.address_hi = cap[d].msg_addr_hi
                           /\ e.data.hi = 0
                           /\ Bits(e.data.lo)
                                 = Bits(cap[d].msg_data) \cup Bits(i)

\* An enabled device has finished a mask-bits write that clears the mask of
\* vector 0, which had no entry when the call began and has one now.
C18_Witness ==
    \E d \in Dev :
        /\ pc[d] = "ret"
        /\ old_enabled[d] /\ enabled(cap[d])
        /\ per_vector_mask(cap[d])
        /\ call[d] = W(16, <<0, 0, 0, 0>>)
        /\ Gsi(d, 0) \notin DOMAIN old_routes
        /\ Gsi(d, 0) \in DOMAIN gsi_msi_routes

\* C19: on a device constructed with the enable bit clear, route.enable is
\* invoked only in an update that found the device disabled and leaves it
\* enabled, and only on a route whose last invocation, if any, was disable;
\* route.disable only in an update that found it enabled and leaves it
\* disabled, and only on a route whose last invocation was enable.  So an
\* update that keeps the enable bit invokes neither, and on each route the
\* invocations alternate, beginning with enable.
C19_EnableDisableAlternate ==
    [][\A d \in Dev :
          Len(route_calls'[d]) = Len(route_calls[d]) + 1 =>
              LET op == route_calls'[d][Len(route_calls'[d])]
              IN  /\ op[1] = "enable" =>
                        /\ ~old_enabled[d] /\ enabled(cap[d])
                        /\ last_op[d][op[2] + 1] \in {"none", "disable"}
                  /\ op[1] = "disable" =>
                        /\ old_enabled[d] /\ ~enabled(cap[d])
                        /\ last_op[d][op[2] + 1] = "enable"
                  /\ last_op'[d][op[2] + 1] = op[1]]_vars

\* A device owning two routes has finished the work of the update that
\* disabled it: disable was invoked on both routes, each enabled before.
C19_Witness ==
    \E d \in Dev :
        /\ pc[d] = "ret"
        /\ route_calls[d] = << <<"disable", 0>>, <<"disable", 1>> >>
        /\ last_op[d] = <<"disable", "disable">>
        /\ old_enabled[d] /\ ~enabled(cap[d])

\* The entries of the shared table under the GSIs of device d.
Entries(d) ==
    [g \in Gsis(d) \cap DOMAIN gsi_msi_routes |-> gsi_msi_routes[g]]

\* Device d is inside a call whose write is the write of its previous call.
Second(d) == call[d] # NoCall /\ call[d] = prev_call[d]

\* C20: update applied twice in a row to one device with the same (offset,
\* data) changes nothing the second time: cap.update of the second call
\* leaves the register block as the first left it, the device's table entries
\* do not change from the return of the first call to the return of the
\* second, whatever other devices do meanwhile, and the second call invokes
\* neither route.enable nor route.disable.
C20_UpdateIdempotent ==
    [][\A d \in Dev :
          /\ (pc[d] = "idle" /\ call'[d] # NoCall /\ call'[d] = prev_call[d])
                => cap'[d] = cap[d]
          /\ Second(d) => cap'[d] = cap[d]
          /\ (pc[d] \in {"idle", "lock"} \/ Second(d))
                => Entries(d)' = Entries(d)
          /\ Second(d)' => route_calls'[d] = <<>>]_vars

\* An enabled device has finished the work of its second address-low write
\* in a row; its entries carry the written address.
C20_Witness ==
    \E d \in Dev :
        /\ pc[d] = "ret"
        /\ Second(d)
        /\ call[d] = W(4, <<255, 255, 1, 128>>)
        /\ enabled(cap[d])
        /\ Entries(d) # EmptyTable
        /\ \A g \in DOMAIN Entries(d) :
              Entries(d)[g].address_lo = U32(32769, 65532)

====
